---------------------------- MODULE Spec2Model ----------------------------
(***************************************************************************)
(* A model of skeeter_deleter.py: the PostQualifier predicates, the three  *)
(* gathering flows of SkeeterDeleter.__init__, the archival that precedes  *)
(* them and the two confirmation-gated batch flows that follow.            *)
(*                                                                         *)
(* Python strings are sequences of one-character strings, so that `in`,    *)
(* split and strip are computed as Python computes them.  A datetime is a  *)
(* wall-clock reading in ticks together with its UTC offset in ticks.      *)
(***************************************************************************)
EXTENDS Integers, Sequences, FiniteSets, TLC

VARIABLES
    qin,          \* the arguments of one evaluation of the PostQualifier predicates
    qout,         \* what the predicates returned for qin
    cfg,          \* the parameters of the run (__main__'s params, __init__'s params)
    env,          \* what the network holds: the repository, posts, feed and blob pages
    pc,           \* where the run is
    raised,       \* the function an uncaught exception left, "" while there is none
    disk,         \* what archive_repo has written: the .car file and the blobs
    blob_cids,    \* archive_repo's blob_cids
    cursor,       \* the cursor of the loop that is running
    self_likes,   \* gather_likes' first result
    other_likes,  \* gather_likes' other_likes
    to_unlike,    \* self.to_unlike
    reposts,      \* gather_reposts' reposts
    to_unrepost,  \* gather_reposts' result
    to_delete,    \* self.to_delete
    pos,          \* how many elements the running for loop has consumed
    batches,      \* the get_posts calls made so far
    fetches,      \* the get_author_feed calls made so far
    prompts,      \* the answers read so far, with the flow that asked
    mutations     \* the delete_like, unrepost and delete_post calls made so far

qvars == <<qin, qout>>

gathered == <<self_likes, other_likes, to_unlike, reposts, to_unrepost, to_delete>>

logs == <<batches, fetches, prompts, mutations>>

vars == <<qin, qout, cfg, env, pc, raised, disk, blob_cids, cursor, gathered,
          pos, logs>>

(***************************************************************************)
(* Bounds of the model.                                                    *)
(***************************************************************************)
TicksPerDay == 2
HorizonDays == 3
MaxOffset == 1
MaxCount == 2
MaxBlocks == 3
MaxFetches == 3
MaxPrompts == 2
MaxRecords == 51

(***************************************************************************)
(* Python str operations.                                                  *)
(***************************************************************************)
RECURSIVE FindFrom(_, _, _)
FindFrom(sub, s, i) ==
    IF i + Len(sub) - 1 > Len(s) THEN FALSE
    ELSE IF SubSeq(s, i, i + Len(sub) - 1) = sub THEN TRUE
    ELSE FindFrom(sub, s, i + 1)

\* a slip: s.startswith(sub) in place of sub in s
StrInPrefixOnly(sub, s) == Len(sub) <= Len(s) /\ SubSeq(s, 1, Len(sub)) = sub

\* sub in s
StrIn(sub, s) == FindFrom(sub, s, 1)

RECURSIVE Split(_, _)
\* s.split(sep) for a one-character sep: the pieces between separators,
\* empty pieces kept
Split(s, sep) ==
    IF \A i \in 1..Len(s) : s[i] # sep THEN <<s>>
    ELSE LET k == CHOOSE i \in 1..Len(s) :
                      s[i] = sep /\ \A j \in 1..(i - 1) : s[j] # sep
         IN  <<SubSeq(s, 1, k - 1)>> \o Split(SubSeq(s, k + 1, Len(s)), sep)

RECURSIVE LStrip(_)
LStrip(s) == IF s # <<>> /\ Head(s) = " " THEN LStrip(Tail(s)) ELSE s

RECURSIVE RStrip(_)
RStrip(s) ==
    IF s # <<>> /\ s[Len(s)] = " " THEN RStrip(SubSeq(s, 1, Len(s) - 1)) ELSE s

\* s.strip()
Strip(s) == RStrip(LStrip(s))

\* __main__: the --domains-to-protect argument as the list handed to the class
ParseDomains(arg) ==
    IF arg = <<>> THEN <<>>
    ELSE LET parts == Split(arg, ",")
         IN  [i \in 1..Len(parts) |-> Strip(parts[i])]

(***************************************************************************)
(* datetime.                                                               *)
(***************************************************************************)
\* dateutil.parser.parse raises on a string it cannot read
ParseRaises(created_at) == ~created_at.ok

\* dateutil.parser.parse(created_at): the reading and the offset the string gives
Parse(created_at) == [wall |-> created_at.wall, off |-> created_at.off]

\* dt.replace(tzinfo=timezone.utc): the reading is kept, the offset is set
ReplaceTzUtc(dt) == [wall |-> dt.wall, off |-> 0]

\* the instant an aware datetime denotes, which is what <= compares
Instant(dt) == dt.wall - dt.off

\* timedelta(days=n)
Days(n) == n * TicksPerDay

(***************************************************************************)
(* PostQualifier.                                                          *)
(***************************************************************************)
IsViral(post, viral_threshold) ==
    IF viral_threshold = 0 THEN FALSE
    ELSE post.repost_count >= viral_threshold

IsStaleRaises(post, stale_threshold) ==
    stale_threshold # 0 /\ ParseRaises(post.record.created_at)

\* a slip: no test for the threshold 0 that disables the rule
IsStaleNoZeroTest(post, stale_threshold, now) ==
    Instant(ReplaceTzUtc(Parse(post.record.created_at))) <= now - Days(stale_threshold)

IsStale(post, stale_threshold, now) ==
    IF stale_threshold = 0 THEN FALSE
    ELSE Instant(ReplaceTzUtc(Parse(post.record.created_at)))
             <= now - Days(stale_threshold)

\* hasattr(self.embed, "external")
HasExternal(embed) == embed.kind = "external"

IsProtectedDomain(post, domains_to_protect) ==
    /\ HasExternal(post.embed)
    /\ \E i \in 1..Len(domains_to_protect) :
           StrIn(domains_to_protect[i], post.embed.external.uri)

IsSelfLiked(post, sl) ==
    \E i \in 1..Len(sl) : post.uri = sl[i].subject.uri

\* to_delete raises when a predicate it evaluates raises: is_stale is
\* evaluated only when is_viral is false
ToDeleteRaises(viral_threshold, stale_threshold, domains_to_protect, now, sl, post) ==
    /\ ~IsViral(post, viral_threshold)
    /\ IsStaleRaises(post, stale_threshold)

\* a slip: the self-like exemption left out
ToDeleteNoSelfLike(viral_threshold, stale_threshold, domains_to_protect, now, sl, post) ==
    /\ (IsViral(post, viral_threshold) \/ IsStale(post, stale_threshold, now))
    /\ ~IsProtectedDomain(post, domains_to_protect)

ToDelete(viral_threshold, stale_threshold, domains_to_protect, now, sl, post) ==
    IF /\ (IsViral(post, viral_threshold) \/ IsStale(post, stale_threshold, now))
       /\ ~IsProtectedDomain(post, domains_to_protect)
       /\ ~IsSelfLiked(post, sl)
    THEN TRUE
    ELSE FALSE

ToRemoveRaises(stale_threshold, now, post) == IsStaleRaises(post, stale_threshold)

ToRemove(stale_threshold, now, post) == IsStale(post, stale_threshold, now)

(***************************************************************************)
(* The inputs of the predicates.                                           *)
(***************************************************************************)
Now == Days(HorizonDays)

CreatedAts ==
    [ok : {TRUE}, wall : 0..(Now + 1), off : (-MaxOffset)..MaxOffset]
        \cup {[ok |-> FALSE, wall |-> 0, off |-> 0]}

NoEmbed == [kind |-> "none", external |-> [uri |-> <<>>]]
ImagesEmbed == [kind |-> "images", external |-> [uri |-> <<>>]]
External(uri) == [kind |-> "external", external |-> [uri |-> uri]]

Urls == {<<"x", "a", "b", "y">>, <<"a", "x", "b">>, <<"A", "B">>}

Embeds == {NoEmbed, ImagesEmbed} \cup {External(u) : u \in Urls}

DomainArgs ==
    { <<>>, <<"a", "b">>, <<"c", ",", " ", "a", "b">>, <<"c", ",">>,
      <<"b", " ", ",", "c">>, <<"a", "b", "y", "z">> }

\* Python's None, where a string may stand
None == "<None>"

\* self.client.me.did, another account's, and one that continues the actor's
MeDid == <<"did:web:me.example">>
OtherDid == <<"did:plc:other">>
LongerDid == <<"did:web:me.example", ".org">>

PostType == <<"app.bsky.feed.post">>
LikeType == <<"app.bsky.feed.like">>
RepostType == <<"app.bsky.feed.repost">>

RecordUri(did, collection, rkey) == <<"at://">> \o did \o <<"/">> \o collection \o <<"/", rkey>>
PostUri(did, rkey) == RecordUri(did, PostType, rkey)

QUri == PostUri(MeDid, "1")
QOtherUri == PostUri(OtherDid, "1")

Like(uri, cid) == [subject |-> [uri |-> uri, cid |-> cid]]

QSelfLikes ==
    { <<>>, <<Like(QUri, "c1")>>, <<Like(QOtherUri, "c2")>>,
      <<Like(QOtherUri, "c2"), Like(QUri, "c1")>> }

QPosts ==
    [uri : {QUri}, repost_count : 0..MaxCount,
     record : [created_at : CreatedAts], embed : Embeds]

QNoOut ==
    [done |-> FALSE, domains_to_protect |-> <<>>, viral |-> FALSE,
     stale_raises |-> FALSE, stale |-> FALSE, protected |-> FALSE,
     self_liked |-> FALSE, to_delete_raises |-> FALSE, to_delete |-> FALSE,
     to_remove_raises |-> FALSE, to_remove |-> FALSE]

(***************************************************************************)
(* The network: posts as the server shows them to the actor.               *)
(***************************************************************************)
Old == [ok |-> TRUE, wall |-> 0, off |-> 0]
New == [ok |-> TRUE, wall |-> Now, off |-> 0]
Unreadable == [ok |-> FALSE, wall |-> 0, off |-> 0]

PostView(did, rkey, count, created_at, embed) ==
    [uri |-> PostUri(did, rkey),
     author |-> [did |-> did],
     repost_count |-> count,
     record |-> [created_at |-> created_at],
     embed |-> embed,
     viewer |-> [like |-> RecordUri(MeDid, LikeType, rkey),
                 repost |-> RecordUri(MeDid, RepostType, rkey)]]

PM1 == PostView(MeDid, "m1", MaxCount, Old, NoEmbed)
PM2 == PostView(MeDid, "m2", 0, New, External(<<"x", "a", "b", "y">>))
PM3 == PostView(MeDid, "m3", MaxCount, Old, External(<<"x", "a", "b", "y">>))
PM4 == PostView(MeDid, "m4", 0, Unreadable, NoEmbed)
PM5 == PostView(MeDid, "m5", 0, Old, NoEmbed)
PO1 == PostView(OtherDid, "o1", MaxCount, Old, External(<<"x", "a", "b", "y">>))
PO2 == PostView(OtherDid, "o2", 0, Old, NoEmbed)
PO3 == PostView(OtherDid, "o3", 0, Unreadable, NoEmbed)
PO4 == PostView(OtherDid, "o4", 1, New, ImagesEmbed)
PL1 == PostView(LongerDid, "l1", MaxCount, Old, NoEmbed)

\* the posts the server still has; a deleted post is in no answer
ServerPosts == {PM1, PM2, PM3, PM4, PM5, PO1, PO2, PO3, PO4, PL1}

DeletedUri == PostUri(OtherDid, "gone")

RECURSIVE GetPosts(_, _)
\* client.get_posts(uris).posts: the posts among uris that exist
GetPosts(posts, uris) ==
    IF uris = <<>> THEN <<>>
    ELSE LET found == {p \in posts : p.uri = Head(uris)}
         IN  (IF found = {} THEN <<>> ELSE <<CHOOSE p \in found : TRUE>>)
                 \o GetPosts(posts, Tail(uris))

(***************************************************************************)
(* The repository archive: CAR.from_bytes(repo).blocks, in its order.      *)
(***************************************************************************)
NoSubject == [uri |-> <<>>, cid |-> ""]

\* a record block: a dict with '$type'
Record(type, subject, text) ==
    [kind |-> "record", type |-> type, subject |-> subject, e |-> <<>>, text |-> text]

\* a tree node: a dict with 'e', each entry a key suffix 'k' and a link 'v'
Node(e) ==
    [kind |-> "node", type |-> <<>>, subject |-> NoSubject, e |-> e, text |-> <<>>]

\* what dict.get answers for a key that is absent
NoneBlock ==
    [kind |-> "None", type |-> <<>>, subject |-> NoSubject, e |-> <<>>, text |-> <<>>]

LikeRecord(uri, cid) == Record(LikeType, [uri |-> uri, cid |-> cid], <<>>)
RepostRecord(uri, cid) == Record(RepostType, [uri |-> uri, cid |-> cid], <<>>)
PostRecord(text) == Record(PostType, NoSubject, text)

RECURSIVE Keys(_)
Keys(e) == IF e = <<>> THEN <<>> ELSE Head(e).k \o <<";">> \o Keys(Tail(e))

\* str(block): every key and value of the dict is in it
StrOf(b) == b.type \o <<";">> \o b.subject.uri \o <<";">> \o Keys(b.e) \o b.text

\* '$type' in block
HasType(b) == b.kind = "record"

\* 'e' in block
HasE(b) == b.kind = "node"

\* block['subject'] is there to read
HasSubject(b) == b.kind = "record" /\ b.subject # NoSubject

\* archive.blocks.get(cid)
BlocksGet(archive, cid) ==
    IF \E i \in 1..Len(archive) : archive[i].cid = cid
    THEN archive[CHOOSE i \in 1..Len(archive) : archive[i].cid = cid].block
    ELSE NoneBlock

\* [archive.blocks.get(cid) for cid in archive.blocks]
Blocks(archive) == [i \in 1..Len(archive) |-> archive[i].block]

ExtractFeedItem(archive, block) ==
    IF HasType(block) THEN block
    ELSE IF HasE(block) /\ Len(block.e) > 0 THEN BlocksGet(archive, block.e[1].v)
    ELSE block

\* 'app.bsky.feed.like' in str(x)
MentionsLike(b) == StrIn(LikeType, StrOf(b))

\* '$type' in x and "app.bsky.feed.repost" in str(x)
MentionsRepost(b) == HasType(b) /\ StrIn(RepostType, StrOf(b))

\* self.client.me.did in x['subject']['uri']
OnOwnContent(did, x) == StrIn(did, x.subject.uri)

\* archive.blocks.get(x['subject']['cid']), read as a truth value
SubjectResolves(archive, x) == BlocksGet(archive, x.subject.cid) # NoneBlock

\* gather_likes, lines 223-225: the blocks that mention a like, extracted
Likes(archive) ==
    LET hits == SelectSeq(Blocks(archive), MentionsLike)
    IN  [i \in 1..Len(hits) |-> ExtractFeedItem(archive, hits[i])]

\* lines 227-229 read x['subject']['uri'] of every element of likes
LikesScanRaises(archive) ==
    \E i \in 1..Len(Likes(archive)) : ~HasSubject(Likes(archive)[i])

\* lines 227-228
SelfLikes(archive, did) ==
    SelectSeq(SelectSeq(Likes(archive), LAMBDA x : OnOwnContent(did, x)),
              LAMBDA x : SubjectResolves(archive, x))

\* a slip: every like taken, the actor's own content included
OtherLikesAll(archive, did) == Likes(archive)

\* line 229
OtherLikes(archive, did) ==
    SelectSeq(Likes(archive), LAMBDA x : ~OnOwnContent(did, x))

\* gather_reposts, lines 261-266
Reposts(archive) == SelectSeq(Blocks(archive), MentionsRepost)

\* a slip: seq[pos:pos + size - 1]
ChunkShort(seq, n, size) ==
    SubSeq(seq, n + 1, IF n + size - 1 <= Len(seq) THEN n + size - 1 ELSE Len(seq))

\* SkeeterDeleter.chunker: the chunk that starts after the first n elements
Chunk(seq, n, size) ==
    SubSeq(seq, n + 1, IF n + size <= Len(seq) THEN n + size ELSE Len(seq))

\* [x['subject']['uri'] for x in batch]
SubjectUris(batch) == [i \in 1..Len(batch) |-> batch[i].subject.uri]

(***************************************************************************)
(* The run: SkeeterDeleter.__init__, then unlike() and delete().           *)
(***************************************************************************)
LikesChunk == 25
RepostsChunk == 25

\* how a call on the client ends: it returns, or raises httpx.HTTPStatusError,
\* or raises another exception
Outcomes == {"ok", "HTTPStatusError", "Exception"}

\* an uncaught exception ends the run
Abort(where) == pc' = "aborted" /\ raised' = where

\* a slip: a failure of get_repo or of the write is swallowed and the run
\* goes on
ArchiveRepoSwallowed ==
    /\ pc = "archive_repo"
    /\ \E ok \in BOOLEAN :
         /\ disk' = [disk EXCEPT !.car = ok]
         /\ cursor' = None
         /\ blob_cids' = <<>>
         /\ pc' = "list_blobs"
    /\ UNCHANGED <<qvars, cfg, env, raised, gathered, pos, logs>>

\* archive_repo, lines 350-358: get_repo, then the .car file is written
ArchiveRepo ==
    /\ pc = "archive_repo"
    /\ \E ok \in BOOLEAN :
         IF ok
         THEN /\ disk' = [disk EXCEPT !.car = TRUE]
              /\ cursor' = None
              /\ blob_cids' = <<>>
              /\ pc' = "list_blobs"
              /\ UNCHANGED raised
         ELSE /\ Abort("archive_repo")
              /\ UNCHANGED <<disk, cursor, blob_cids>>
    /\ UNCHANGED <<qvars, cfg, env, gathered, pos, logs>>

\* not cursor
Falsy(c) == c = None \/ c = ""

\* archive_repo, lines 361-366: one list_blobs page
ListBlobs ==
    /\ pc = "list_blobs"
    /\ \E ok \in BOOLEAN :
         IF ok
         THEN LET blob_page == env.blobs[cursor]
                  cids == blob_cids \o blob_page.cids
              IN  /\ blob_cids' = cids
                  /\ cursor' = blob_page.cursor
                  /\ pos' = 0
                  /\ pc' = IF ~Falsy(blob_page.cursor) THEN "list_blobs"
                           ELSE IF cids = <<>> THEN "gather_likes"
                           ELSE "get_blob"
                  /\ UNCHANGED raised
         ELSE /\ Abort("archive_repo")
              /\ UNCHANGED <<cursor, blob_cids, pos>>
    /\ UNCHANGED <<qvars, cfg, env, disk, gathered, logs>>

\* archive_repo, lines 367-376: one blob fetched and written; repo returned
\* after the last
GetBlob ==
    /\ pc = "get_blob"
    /\ pos < Len(blob_cids)
    /\ \E ok \in BOOLEAN :
         IF ok
         THEN /\ disk' = [disk EXCEPT !.blobs = Append(@, blob_cids[pos + 1])]
              /\ pos' = pos + 1
              /\ pc' = IF pos + 1 = Len(blob_cids) THEN "gather_likes" ELSE "get_blob"
              /\ UNCHANGED raised
         ELSE /\ Abort("archive_repo")
              /\ UNCHANGED <<disk, pos>>
    /\ UNCHANGED <<qvars, cfg, env, blob_cids, cursor, gathered, logs>>

\* list(filter(partial(PostQualifier.to_remove, ...), map(cast, posts)))
UnlikeFilter(posts) ==
    SelectSeq(posts, LAMBDA p : ToRemove(cfg.stale_threshold, cfg.now, p))

UnlikeFilterRaises(posts) ==
    \E i \in 1..Len(posts) : ToRemoveRaises(cfg.stale_threshold, cfg.now, posts[i])

\* a slip: the reposts and posts filtered with to_remove, as the likes are
DeleteFilterStaleOnly(posts, sl) == UnlikeFilter(posts)

\* list(filter(partial(PostQualifier.to_delete, ...), map(cast, posts)))
DeleteFilter(posts, sl) ==
    SelectSeq(posts, LAMBDA p : ToDelete(cfg.viral_threshold, cfg.stale_threshold,
                                         cfg.domains_to_protect, cfg.now, sl, p))

DeleteFilterRaises(posts, sl) ==
    \E i \in 1..Len(posts) :
        ToDeleteRaises(cfg.viral_threshold, cfg.stale_threshold,
                       cfg.domains_to_protect, cfg.now, sl, posts[i])

\* gather_reposts, lines 259-267, entered when gather_likes has returned
GatherRepostsScan ==
    /\ reposts' = Reposts(env.repo)
    /\ to_unrepost' = <<>>
    /\ pos' = 0
    /\ cursor' = None
    /\ pc' = IF Reposts(env.repo) = <<>> THEN "gather_posts" ELSE "gather_reposts"

\* gather_likes, lines 222-232
GatherLikesScan ==
    /\ pc = "gather_likes"
    /\ IF LikesScanRaises(env.repo)
       THEN /\ Abort("gather_likes")
            /\ UNCHANGED <<gathered, pos, cursor>>
       ELSE /\ self_likes' = SelfLikes(env.repo, MeDid)
            /\ other_likes' = OtherLikes(env.repo, MeDid)
            /\ to_unlike' = <<>>
            /\ UNCHANGED <<raised, to_delete>>
            /\ IF OtherLikes(env.repo, MeDid) = <<>>
               THEN GatherRepostsScan
               ELSE /\ pos' = 0
                    /\ pc' = "likes_batch"
                    /\ UNCHANGED <<reposts, to_unrepost, cursor>>
    /\ UNCHANGED <<qvars, cfg, env, disk, blob_cids, logs>>

\* a slip: the try around the for loop, so that the first failed batch ends
\* the flow
LikesBatchEndsOnError ==
    /\ pc = "likes_batch"
    /\ pos < Len(other_likes)
    /\ \E outcome \in Outcomes :
         LET batch == Chunk(other_likes, pos, LikesChunk)
             uris == SubjectUris(batch)
             posts == GetPosts(env.posts, uris)
             caught == outcome # "ok" \/ UnlikeFilterRaises(posts)
             last == caught \/ pos + LikesChunk >= Len(other_likes)
         IN  /\ batches' = Append(batches, [flow |-> "likes", uris |-> uris,
                                            caught |-> caught])
             /\ to_unlike' = IF caught THEN to_unlike
                             ELSE to_unlike \o UnlikeFilter(posts)
             /\ IF last
                THEN GatherRepostsScan
                ELSE /\ pos' = pos + LikesChunk
                     /\ UNCHANGED <<pc, reposts, to_unrepost, cursor>>
    /\ UNCHANGED <<qvars, cfg, env, raised, disk, blob_cids, self_likes,
                   other_likes, to_delete, fetches, prompts, mutations>>

\* gather_likes, lines 233-249: one batch of the for loop
LikesBatch ==
    /\ pc = "likes_batch"
    /\ pos < Len(other_likes)
    /\ \E outcome \in Outcomes :
         LET batch == Chunk(other_likes, pos, LikesChunk)
             uris == SubjectUris(batch)
             posts == GetPosts(env.posts, uris)
             caught == outcome # "ok" \/ UnlikeFilterRaises(posts)
             last == pos + LikesChunk >= Len(other_likes)
         IN  /\ batches' = Append(batches, [flow |-> "likes", uris |-> uris,
                                            caught |-> caught])
             /\ to_unlike' = IF caught THEN to_unlike
                             ELSE to_unlike \o UnlikeFilter(posts)
             /\ IF last
                THEN GatherRepostsScan
                ELSE /\ pos' = pos + LikesChunk
                     /\ UNCHANGED <<pc, reposts, to_unrepost, cursor>>
    /\ UNCHANGED <<qvars, cfg, env, raised, disk, blob_cids, self_likes,
                   other_likes, to_delete, fetches, prompts, mutations>>

\* gather_reposts, lines 268-288: one batch of the for loop
RepostsBatch ==
    /\ pc = "gather_reposts"
    /\ pos < Len(reposts)
    /\ \E outcome \in Outcomes :
         LET batch == Chunk(reposts, pos, RepostsChunk)
             keyerror == \E i \in 1..Len(batch) : ~HasSubject(batch[i])
             uris == IF keyerror THEN <<>> ELSE SubjectUris(batch)
             posts == GetPosts(env.posts, uris)
             caught == keyerror \/ outcome # "ok" \/ DeleteFilterRaises(posts, self_likes)
             last == pos + RepostsChunk >= Len(reposts)
         IN  /\ batches' = IF keyerror THEN batches
                           ELSE Append(batches, [flow |-> "reposts", uris |-> uris,
                                                 caught |-> caught])
             /\ to_unrepost' = IF caught THEN to_unrepost
                               ELSE to_unrepost \o DeleteFilter(posts, self_likes)
             /\ pos' = IF last THEN 0 ELSE pos + RepostsChunk
             /\ pc' = IF last THEN "gather_posts" ELSE pc
    /\ UNCHANGED <<qvars, cfg, env, raised, disk, blob_cids, cursor, self_likes,
                   other_likes, to_unlike, reposts, to_delete, fetches,
                   prompts, mutations>>

\* gather_posts_to_delete, lines 299-326: one turn of the while loop
PostsFetch ==
    /\ pc = "gather_posts"
    /\ Len(fetches) < MaxFetches
    /\ \E outcome \in Outcomes :
         LET posts == env.feed[cursor]
             caught == outcome # "ok" \/ DeleteFilterRaises(posts.feed, self_likes)
             next == IF caught THEN cursor ELSE posts.cursor
         IN  /\ fetches' = Append(fetches, [cursor |-> cursor, outcome |-> outcome,
                                            caught |-> caught])
             /\ to_delete' = IF caught THEN to_delete
                             ELSE to_delete \o DeleteFilter(posts.feed, self_likes)
             /\ cursor' = next
             /\ pc' = IF next = None THEN "init_tail" ELSE pc
    /\ UNCHANGED <<qvars, cfg, env, raised, disk, blob_cids, self_likes,
                   other_likes, to_unlike, reposts, to_unrepost, pos,
                   batches, prompts, mutations>>

\* __init__, lines 408-411: the reposts are appended to the posts
InitTail ==
    /\ pc = "init_tail"
    /\ to_delete' = to_delete \o to_unrepost
    /\ pc' = "unlike"
    /\ UNCHANGED <<qvars, cfg, env, raised, disk, blob_cids, cursor, self_likes,
                   other_likes, to_unlike, reposts, to_unrepost, pos, logs>>

\* what input() can give: the two answers the loop accepts, one it does not,
\* and the end of input, which raises EOFError
Answers == {"Y", "n", "y", "EOF"}

\* a slip: every answer but "n" taken for a yes
GateLenient(flow, items, batch_pc, after_pc) ==
    /\ pc = flow
    /\ IF cfg.autodelete
       THEN /\ pc' = IF items = <<>> THEN after_pc ELSE batch_pc
            /\ UNCHANGED <<prompts, raised>>
       ELSE \E answer \in Answers :
              /\ prompts' = Append(prompts, [flow |-> flow, answer |-> answer])
              /\ IF answer = "EOF"
                 THEN Abort("input")
                 ELSE /\ pc' = IF answer = "n" THEN after_pc
                               ELSE IF items = <<>> THEN after_pc ELSE batch_pc
                      /\ UNCHANGED raised
    /\ pos' = 0
    /\ UNCHANGED <<qvars, cfg, env, disk, blob_cids, cursor, gathered, batches,
                   fetches, mutations>>

\* the while loop and the if of unlike() and of delete(), lines 416-421 and
\* 425-430: with autodelete no input() is made; otherwise one input() per turn
Gate(flow, items, batch_pc, after_pc) ==
    /\ pc = flow
    /\ IF cfg.autodelete
       THEN /\ pc' = IF items = <<>> THEN after_pc ELSE batch_pc
            /\ UNCHANGED <<prompts, raised>>
       ELSE \E answer \in Answers :
              /\ answer \notin {"Y", "n"} => Len(prompts) < MaxPrompts
              /\ prompts' = Append(prompts, [flow |-> flow, answer |-> answer])
              /\ IF answer = "EOF"
                 THEN Abort("input")
                 ELSE /\ pc' = IF answer = "Y"
                               THEN (IF items = <<>> THEN after_pc ELSE batch_pc)
                               ELSE IF answer = "n" THEN after_pc
                               ELSE pc
                      /\ UNCHANGED raised
    /\ pos' = 0
    /\ UNCHANGED <<qvars, cfg, env, disk, blob_cids, cursor, gathered, batches,
                   fetches, mutations>>

UnlikeGate == Gate("unlike", to_unlike, "batch_unlike", "delete")

DeleteGate == Gate("delete", to_delete, "batch_delete", "done")

Call(op, target, outcome) == [op |-> op, target |-> target, outcome |-> outcome]

\* a slip: the fallback tried after any failure of the first call
DeleteLikeCallsRetryAny(post, first, second) ==
    IF first # "ok"
    THEN <<Call("delete_like", post.viewer.like, first),
           Call("delete_like", post.uri, second)>>
    ELSE <<Call("delete_like", post.viewer.like, first)>>

\* PostQualifier.delete_like, lines 87-100: the calls it makes and whether an
\* exception leaves it, for the outcome of the first call and of the second
DeleteLikeCalls(post, first, second) ==
    IF first = "HTTPStatusError"
    THEN <<Call("delete_like", post.viewer.like, first),
           Call("delete_like", post.uri, second)>>
    ELSE <<Call("delete_like", post.viewer.like, first)>>

DeleteLikeRaises(post, first, second) ==
    first = "HTTPStatusError" /\ second = "Exception"

\* batch_unlike_posts, lines 333-337: one item of the for loop
BatchUnlike ==
    /\ pc = "batch_unlike"
    /\ pos < Len(to_unlike)
    /\ \E first \in Outcomes, second \in Outcomes :
         LET post == to_unlike[pos + 1]
         IN  /\ first # "HTTPStatusError" => second = "ok"
             /\ mutations' = mutations \o DeleteLikeCalls(post, first, second)
             /\ IF DeleteLikeRaises(post, first, second)
                THEN Abort("delete_like") /\ UNCHANGED pos
                ELSE /\ pos' = pos + 1
                     /\ pc' = IF pos + 1 = Len(to_unlike) THEN "delete" ELSE pc
                     /\ UNCHANGED raised
    /\ UNCHANGED <<qvars, cfg, env, disk, blob_cids, cursor, gathered, batches,
                   fetches, prompts>>

\* a slip: the author test left out, every item deleted as a post
RemoveCallDeletesAll(post, outcome) == Call("delete_post", post.uri, outcome)

\* PostQualifier.remove, lines 106-121: the call it makes
RemoveCall(post, outcome) ==
    IF post.author.did # MeDid
    THEN Call("unrepost", post.viewer.repost, outcome)
    ELSE Call("delete_post", post.uri, outcome)

\* batch_delete_posts, lines 343-347: one item of the for loop
BatchDelete ==
    /\ pc = "batch_delete"
    /\ pos < Len(to_delete)
    /\ \E outcome \in Outcomes :
         /\ mutations' = Append(mutations, RemoveCall(to_delete[pos + 1], outcome))
         /\ pos' = pos + 1
         /\ pc' = IF pos + 1 = Len(to_delete) THEN "done" ELSE pc
    /\ UNCHANGED <<qvars, cfg, env, raised, disk, blob_cids, cursor, gathered,
                   batches, fetches, prompts>>

(***************************************************************************)
(* The states a run starts from.                                           *)
(***************************************************************************)
Block(cid, block) == [cid |-> cid, block |-> block]

LikeKey(rkey) == LikeType \o <<"/", rkey>>

\* the blocks a repository is made of here, in the order of the file; the
\* like k7 is on a post of the longer DID and names the content identifier
\* of the block cM1
Catalog ==
    << Block("cM1", PostRecord(<<"hello">>)),
       Block("k1", LikeRecord(PM1.uri, "cM1")),
       Block("k2", LikeRecord(PM3.uri, "cM3")),
       Block("k3", LikeRecord(PO1.uri, "cO1")),
       Block("k4", LikeRecord(PO2.uri, "cO2")),
       Block("k5", LikeRecord(PO3.uri, "cO3")),
       Block("k6", LikeRecord(PO4.uri, "cO4")),
       Block("k7", LikeRecord(PL1.uri, "cM1")),
       Block("r1", RepostRecord(PO1.uri, "cO1")),
       Block("r2", RepostRecord(PO2.uri, "cO2")),
       Block("r3", RepostRecord(PM1.uri, "cM1")),
       Block("r4", RepostRecord(DeletedUri, "cGone")),
       Block("n1", Node(<<[k |-> LikeKey("4"), v |-> "k4"]>>)),
       Block("n2", Node(<<[k |-> LikeKey("9"), v |-> "k9"]>>)),
       Block("cM4", PostRecord(LikeType \o <<" ">> \o RepostType)) >>

RECURSIVE Pick(_, _)
\* the elements of seq at the indices in S, in the order of seq
Pick(seq, S) ==
    IF seq = <<>> THEN <<>>
    ELSE LET rest == Pick(SubSeq(seq, 1, Len(seq) - 1), S)
         IN  IF Len(seq) \in S THEN Append(rest, seq[Len(seq)]) ELSE rest

\* the repositories of at most MaxBlocks blocks
Repos ==
    {Pick(Catalog, S) : S \in {T \in SUBSET (1..Len(Catalog)) : Cardinality(T) <= MaxBlocks}}

Page(feed, c) == [feed |-> feed, cursor |-> c]

\* the actor's feed: own posts, and a post of another author the actor
\* reposted
TwoPageFeed ==
    [c \in {None, "", "c1"} |->
        IF c = None THEN Page(<<PM1, PM2>>, "c1")
        ELSE IF c = "c1" THEN Page(<<PM3, PO1, PM5>>, None)
        ELSE Page(<<>>, None)]

OnePageFeed == [c \in {None, "", "c1"} |-> Page(<<PM1>>, None)]

BlobPage(cids, c) == [cids |-> cids, cursor |-> c]

NoBlobs == [c \in {None, "", "b1"} |-> BlobPage(<<>>, None)]

TwoBlobPages ==
    [c \in {None, "", "b1"} |->
        IF c = None THEN BlobPage(<<"blob1">>, "b1")
        ELSE IF c = "b1" THEN BlobPage(<<"blob2">>, "")
        ELSE BlobPage(<<>>, None)]

\* __main__, lines 464-473
Params(max_reposts, stale_limit, domains_arg, yes) ==
    [viral_threshold |-> IF max_reposts > 0 THEN max_reposts ELSE 0,
     stale_threshold |-> IF stale_limit > 0 THEN stale_limit ELSE 0,
     domains_to_protect |-> ParseDomains(domains_arg),
     fixed_likes_cursor |-> "",
     now |-> Now,
     autodelete |-> yes]

QIdle ==
    /\ qin = [post |-> PM1, viral_threshold |-> 0, stale_threshold |-> 0,
              domains_arg |-> <<>>, now |-> Now, self_likes |-> <<>>]
    /\ qout = QNoOut

\* the state __init__ is entered in
Fresh ==
    /\ raised = ""
    /\ disk = [car |-> FALSE, blobs |-> <<>>]
    /\ blob_cids = <<>>
    /\ cursor = None
    /\ self_likes = <<>>
    /\ other_likes = <<>>
    /\ to_unlike = <<>>
    /\ reposts = <<>>
    /\ to_unrepost = <<>>
    /\ to_delete = <<>>
    /\ pos = 0
    /\ batches = <<>>
    /\ fetches = <<>>
    /\ prompts = <<>>
    /\ mutations = <<>>

RunRepos ==
    { <<>>,
      Pick(Catalog, {5, 10}),
      Pick(Catalog, {4, 5}),
      Pick(Catalog, {1, 2, 6, 9}) }

\* a whole run, from a few repositories
Init ==
    /\ QIdle
    /\ cfg \in {Params(1, 1, <<"a", "b">>, yes) : yes \in BOOLEAN}
    /\ env \in [repo : RunRepos, posts : {ServerPosts},
                feed : {OnePageFeed, TwoPageFeed}, blobs : {NoBlobs, TwoBlobPages}]
    /\ pc = "archive_repo"
    /\ Fresh

Next ==
    \/ ArchiveRepo
    \/ ListBlobs
    \/ GetBlob
    \/ GatherLikesScan
    \/ LikesBatch
    \/ RepostsBatch
    \/ PostsFetch
    \/ InitTail
    \/ UnlikeGate
    \/ BatchUnlike
    \/ DeleteGate
    \/ BatchDelete

Spec == Init /\ [][Next]_vars

(***************************************************************************)
(* The gathering alone, from every repository of the catalog.              *)
(***************************************************************************)
\* the state archive_repo leaves when nothing failed
Archived(blobs) ==
    /\ raised = ""
    /\ disk = [car |-> TRUE, blobs |-> blobs]
    /\ blob_cids = blobs
    /\ cursor = None
    /\ self_likes = <<>>
    /\ other_likes = <<>>
    /\ to_unlike = <<>>
    /\ reposts = <<>>
    /\ to_unrepost = <<>>
    /\ to_delete = <<>>
    /\ pos = 0
    /\ batches = <<>>
    /\ fetches = <<>>
    /\ prompts = <<>>
    /\ mutations = <<>>

InitGather ==
    /\ QIdle
    /\ cfg \in {Params(max_reposts, stale_limit, domains_arg, FALSE) :
                  max_reposts \in {-1, 1}, stale_limit \in {0, 1},
                  domains_arg \in {<<>>, <<"a", "b">>}}
    /\ env \in [repo : Repos, posts : {ServerPosts}, feed : {TwoPageFeed},
                blobs : {NoBlobs}]
    /\ pc = "gather_likes"
    /\ Archived(<<>>)

NextGather ==
    \/ GatherLikesScan
    \/ LikesBatch
    \/ RepostsBatch
    \/ PostsFetch
    \/ InitTail

SpecGather == InitGather /\ [][NextGather]_vars

(***************************************************************************)
(* The two batched flows on long repositories: n likes, then n reposts,    *)
(* each of another author's post.                                          *)
(***************************************************************************)
\* the record whose post has a created_at that cannot be parsed
BadRecord == 29

\* the post of record i: stale when i is odd, viral when i is a multiple of 3
NthPost(i) ==
    PostView(OtherDid, ToString(i), IF i % 3 = 0 THEN MaxCount ELSE 0,
             IF i = BadRecord THEN Unreadable
             ELSE IF i % 2 = 1 THEN Old ELSE New, NoEmbed)

LongRepo(n) ==
    [i \in 1..(2 * n) |->
        IF i <= n
        THEN Block("k" \o ToString(i), LikeRecord(NthPost(i).uri, "c" \o ToString(i)))
        ELSE Block("r" \o ToString(i - n),
                   RepostRecord(NthPost(i - n).uri, "c" \o ToString(i - n)))]

\* a --fixed-likes-cursor that every alphanumeric cursor compares less than
TopCursor == "~"

\* __main__, line 471: the argument is passed on as it is
WithLikesCursor(params, c) == [params EXCEPT !.fixed_likes_cursor = c]

InitBatch ==
    /\ QIdle
    /\ cfg \in {WithLikesCursor(Params(1, stale_limit, <<>>, FALSE), c) :
                  stale_limit \in {0, 1}, c \in {"", TopCursor}}
    /\ \E n \in 0..MaxRecords :
         env = [repo |-> LongRepo(n), posts |-> {NthPost(i) : i \in 1..n},
                feed |-> OnePageFeed, blobs |-> NoBlobs]
    /\ pc = "gather_likes"
    /\ Archived(<<>>)

NextBatch ==
    \/ GatherLikesScan
    \/ LikesBatch
    \/ RepostsBatch

SpecBatch == InitBatch /\ [][NextBatch]_vars

(***************************************************************************)
(* The own-posts loop alone, against every feed of three cursors.          *)
(***************************************************************************)
Cursors == {None, "", "c1"}

PageFeeds == {<<>>, <<PM1>>, <<PM2, PM3>>, <<PM4>>}

Feeds == [Cursors -> [feed : PageFeeds, cursor : Cursors]]

InitPosts ==
    /\ QIdle
    /\ cfg = Params(1, 1, <<"a", "b">>, FALSE)
    /\ env \in [repo : {<<>>}, posts : {ServerPosts}, feed : Feeds, blobs : {NoBlobs}]
    /\ pc = "gather_posts"
    /\ Archived(<<>>)

NextPosts ==
    \/ PostsFetch
    \/ InitTail

SpecPosts == InitPosts /\ [][NextPosts]_vars

InitQ ==
    /\ qin \in [post : QPosts, viral_threshold : 0..MaxCount,
                stale_threshold : 0..HorizonDays, domains_arg : DomainArgs,
                now : {Now}, self_likes : QSelfLikes]
    /\ qout = QNoOut
    /\ cfg = Params(0, 0, <<>>, FALSE)
    /\ env = [repo |-> <<>>, posts |-> {}, feed |-> OnePageFeed, blobs |-> NoBlobs]
    /\ pc = "idle"
    /\ Fresh

\* one evaluation of every predicate on the arguments qin
Evaluate ==
    /\ ~qout.done
    /\ LET p == qin.post
           vt == qin.viral_threshold
           st == qin.stale_threshold
           dom == ParseDomains(qin.domains_arg)
           sl == qin.self_likes
       IN  qout' =
             [done |-> TRUE,
              domains_to_protect |-> dom,
              viral |-> IsViral(p, vt),
              stale_raises |-> IsStaleRaises(p, st),
              stale |-> ~IsStaleRaises(p, st) /\ IsStale(p, st, qin.now),
              protected |-> IsProtectedDomain(p, dom),
              self_liked |-> IsSelfLiked(p, sl),
              to_delete_raises |-> ToDeleteRaises(vt, st, dom, qin.now, sl, p),
              to_delete |-> /\ ~ToDeleteRaises(vt, st, dom, qin.now, sl, p)
                            /\ ToDelete(vt, st, dom, qin.now, sl, p),
              to_remove_raises |-> ToRemoveRaises(st, qin.now, p),
              to_remove |-> /\ ~ToRemoveRaises(st, qin.now, p)
                            /\ ToRemove(st, qin.now, p)]
    /\ UNCHANGED <<qin, cfg, env, pc, raised, disk, blob_cids, cursor, gathered,
                   pos, logs>>

NextQ == Evaluate

SpecQ == InitQ /\ [][NextQ]_vars

(***************************************************************************)
(* Claims about the predicates, checked under SpecQ.                       *)
(***************************************************************************)
\* d occurs in s: s is some prefix, then d, then some suffix
Occurs(d, s) ==
    \E k \in 0..Len(s) :
        /\ k + Len(d) <= Len(s)
        /\ \A j \in 1..Len(d) : s[k + j] = d[j]

\* C1: for every item, thresholds, time, protected-domain list and self-like
\* set, to_delete returns true exactly when (is_viral or is_stale) and not
\* is_protected_domain and not is_self_liked, each as the predicate itself
\* answers (a predicate that raises has not answered true).
C1_ToDeleteIffRule ==
    qout.done =>
        (qout.to_delete <=>
            /\ (qout.viral \/ qout.stale)
            /\ ~qout.protected
            /\ ~qout.self_liked)

\* the spec's scenario: viral, no embed, no self-like, so deleted
C1_Witness ==
    /\ qout.done
    /\ qin.post.repost_count = 2 /\ qin.viral_threshold = 1
    /\ qin.stale_threshold = 0
    /\ qin.post.embed = NoEmbed
    /\ qin.self_likes = <<>>
    /\ qout.to_delete

\* the instant the created_at string denotes
CreatedInstant(post) == post.record.created_at.wall - post.record.created_at.off

\* C7: for a non-zero stale threshold t, is_stale is true exactly when the
\* item's creation time is at or before now minus t days.
C7_StaleIffCreatedAtOrBefore ==
    (qout.done /\ qin.stale_threshold # 0 /\ qin.post.record.created_at.ok) =>
        (qout.stale <=>
            CreatedInstant(qin.post) <= qin.now - qin.stale_threshold * TicksPerDay)

\* C8: is_protected_domain is true exactly when the item has an external-link
\* embed and at least one configured domain string occurs in that embed's
\* URL; it is false without an external embed and false for every item when
\* the list is empty, which is what an empty argument parses to.
C8_ProtectedIffDomainOccurs ==
    qout.done =>
        /\ qout.protected <=>
              /\ qin.post.embed.kind = "external"
              /\ \E i \in 1..Len(qout.domains_to_protect) :
                     Occurs(qout.domains_to_protect[i], qin.post.embed.external.uri)
        /\ (qin.post.embed.kind # "external" => ~qout.protected)
        /\ (qout.domains_to_protect = <<>> => ~qout.protected)
        /\ (qin.domains_arg = <<>> => qout.domains_to_protect = <<>>)

\* a viral item protected by the second, stripped entry of the argument,
\* which occurs inside the URL and not at its start
C8_Witness ==
    /\ qout.done
    /\ qin.domains_arg = <<"c", ",", " ", "a", "b">>
    /\ qout.domains_to_protect = << <<"c">>, <<"a", "b">> >>
    /\ qin.post.embed = External(<<"x", "a", "b", "y">>)
    /\ qin.post.repost_count = 2 /\ qin.viral_threshold = 1
    /\ qout.protected
    /\ ~qout.to_delete

(***************************************************************************)
(* Claims about the run.                                                   *)
(***************************************************************************)
\* x is an element of the sequence s
InSeq(x, s) == \E i \in 1..Len(s) : s[i] = x

\* C2: after gathering, whatever batches and pages failed, the final
\* to_delete (own posts, then reposts) holds no item whose external-link
\* embed matches a protected domain and no item whose URI is in the
\* self-like set, whatever its repost count or age.
C2_FinalToDeleteSparesProtectedAndSelfLiked ==
    pc = "unlike" =>
        \A i \in 1..Len(to_delete) :
            /\ ~(/\ to_delete[i].embed.kind = "external"
                 /\ \E j \in 1..Len(cfg.domains_to_protect) :
                        Occurs(cfg.domains_to_protect[j],
                               to_delete[i].embed.external.uri))
            /\ \A k \in 1..Len(self_likes) :
                   self_likes[k].subject.uri # to_delete[i].uri

\* gathering ended with something to delete although the feed and the
\* repository held a viral protected post and a viral self-liked one, and a
\* page had failed on the way
C2_Witness ==
    /\ pc = "unlike"
    /\ cfg.viral_threshold = 1
    /\ cfg.domains_to_protect = << <<"a", "b">> >>
    /\ InSeq(LikeRecord(PM1.uri, "cM1"), self_likes)
    /\ InSeq(RepostRecord(PO1.uri, "cO1"), reposts)
    /\ \E i \in 1..Len(fetches) : fetches[i].caught
    /\ \E i \in 1..Len(fetches) : ~fetches[i].caught /\ fetches[i].cursor = "c1"
    /\ to_delete = <<PM5>>

\* the flow a mutation belongs to
FlowOf(op) == IF op = "delete_like" THEN "unlike" ELSE "delete"

Answered(flow, answer) == InSeq([flow |-> flow, answer |-> answer], prompts)

\* C3: no mutation is issued unless auto-confirm is set or the operator
\* answered exactly "Y" to that flow's prompt; an answer other than "Y" or
\* "n" is followed by the same prompt again; after "n" the flow issues no
\* mutation; with auto-confirm no prompt is shown; and up to the end of
\* __init__ no mutation is issued.
C3_MutationsOnlyAfterConfirmation ==
    /\ \A i \in 1..Len(mutations) :
           cfg.autodelete \/ Answered(FlowOf(mutations[i].op), "Y")
    /\ \A i \in 1..Len(prompts) :
           prompts[i].answer = "n" =>
               \A j \in 1..Len(mutations) : FlowOf(mutations[j].op) # prompts[i].flow
    /\ \A i \in 1..Len(prompts) :
           prompts[i].answer \notin {"Y", "n", "EOF"} =>
               IF i < Len(prompts)
               THEN prompts[i + 1].flow = prompts[i].flow
               ELSE pc = prompts[i].flow
    /\ (cfg.autodelete => prompts = <<>>)
    /\ (pc \notin {"unlike", "batch_unlike", "delete", "batch_delete", "done", "aborted"}
            => mutations = <<>>)

\* the operator mistyped once, confirmed the unlikes and declined the
\* deletions: only unlikes were issued
C3_Witness ==
    /\ pc = "done"
    /\ ~cfg.autodelete
    /\ prompts = << [flow |-> "unlike", answer |-> "y"],
                    [flow |-> "unlike", answer |-> "Y"],
                    [flow |-> "delete", answer |-> "n"] >>
    /\ to_delete # <<>>
    /\ mutations # <<>>
    /\ \A i \in 1..Len(mutations) : mutations[i].op = "delete_like"

RECURSIVE BlobsFrom(_, _, _)
\* the cids of the pages the server lists from cursor c on, to the first page
\* with an empty cursor (at most fuel pages)
BlobsFrom(blobs, c, fuel) ==
    IF fuel = 0 THEN <<>>
    ELSE blobs[c].cids \o
           (IF blobs[c].cursor \in {None, ""} THEN <<>>
            ELSE BlobsFrom(blobs, blobs[c].cursor, fuel - 1))

\* C4: before the first mutation the repository archive has been written
\* and every blob of every blob page has been saved; and when archive_repo
\* fails no mutation is ever issued.
C4_ArchiveBeforeMutations ==
    /\ mutations # <<>> =>
           /\ disk.car
           /\ disk.blobs = BlobsFrom(env.blobs, None, Cardinality(DOMAIN env.blobs))
    /\ raised = "archive_repo" => mutations = <<>>

\* a mutation was issued in a run whose blobs came in two pages
C4_Witness ==
    /\ mutations # <<>>
    /\ env.blobs = TwoBlobPages
    /\ disk.blobs = <<"blob1", "blob2">>
    /\ disk.car

\* gather_likes has returned
LikesGathered == pc \in {"gather_reposts", "gather_posts", "init_tail", "unlike"}

LikesBatches == SelectSeq(batches, LAMBDA b : b.flow = "likes")

RepostsBatches == SelectSeq(batches, LAMBDA b : b.flow = "reposts")

\* is_stale answered true for p
Stale(p) ==
    /\ ~IsStaleRaises(p, cfg.stale_threshold)
    /\ IsStale(p, cfg.stale_threshold, cfg.now)

\* p is the post a like record of the repository is on
Liked(p) ==
    \E i \in 1..Len(Likes(env.repo)) : Likes(env.repo)[i].subject.uri = p.uri

\* C5 as stated: a liked item is placed in to_unlike exactly when it is stale
\* and its URI is not among the actor's self-likes.
C5_UnlikedIffStaleAndNotSelfLiked ==
    (LikesGathered /\ \A i \in 1..Len(LikesBatches) : ~LikesBatches[i].caught) =>
        \A p \in env.posts :
            Liked(p) =>
                (InSeq(p, to_unlike) <=>
                    /\ Stale(p)
                    /\ \A k \in 1..Len(self_likes) : self_likes[k].subject.uri # p.uri)

\* C5, amended: the unlike predicate is is_stale alone.  The likes sent to
\* detail resolution are those whose subject URI does not contain the
\* actor's DID; a post is in to_unlike exactly when a batch that succeeded
\* asked for it and it is stale; so to_unlike holds no self-liked item.
C5_UnlikedIffStaleAndResolved ==
    LikesGathered =>
        /\ \A p \in env.posts :
               InSeq(p, to_unlike) <=>
                   /\ \E i \in 1..Len(LikesBatches) :
                          ~LikesBatches[i].caught /\ InSeq(p.uri, LikesBatches[i].uris)
                   /\ Stale(p)
        /\ \A i \in 1..Len(to_unlike) : to_unlike[i] \in env.posts
        /\ \A i \in 1..Len(Likes(env.repo)) :
               LET uri == Likes(env.repo)[i].subject.uri
               IN  (\E j \in 1..Len(LikesBatches) : InSeq(uri, LikesBatches[j].uris))
                       <=> ~Occurs(MeDid, uri)
        /\ \A i \in 1..Len(to_unlike), k \in 1..Len(self_likes) :
               self_likes[k].subject.uri # to_unlike[i].uri

\* a stale like on the actor's own post that is in no self-like set is left
\* alone, a stale like on another's post is taken and a fresh one is not
C5_Witness ==
    /\ LikesGathered
    /\ cfg.stale_threshold = 1
    /\ Liked(PM3) /\ Liked(PO2) /\ Liked(PO4)
    /\ self_likes = <<>>
    /\ to_unlike = <<PO2>>

\* C6: is_viral is false for every item when the threshold is 0 and is
\* repost_count >= threshold otherwise; is_stale is false for every item
\* when its threshold is 0; with both thresholds 0 both decision sets are
\* empty after gathering.
C6_ZeroThresholdsDisable ==
    /\ \A p \in env.posts :
           /\ cfg.viral_threshold = 0 => ~IsViral(p, cfg.viral_threshold)
           /\ cfg.viral_threshold # 0 =>
                  (IsViral(p, cfg.viral_threshold)
                       <=> p.repost_count >= cfg.viral_threshold)
           /\ cfg.stale_threshold = 0 => ~Stale(p) /\ ~IsStaleRaises(p, 0)
    /\ (cfg.viral_threshold = 0 /\ cfg.stale_threshold = 0 /\ pc = "unlike") =>
           to_unlike = <<>> /\ to_delete = <<>>

\* with both thresholds 0 an old, much reposted post was fetched, an old post
\* was resolved from a like and another from a repost, and nothing was kept
C6_Witness ==
    /\ pc = "unlike"
    /\ cfg.viral_threshold = 0 /\ cfg.stale_threshold = 0
    /\ \E i \in 1..Len(LikesBatches) :
           ~LikesBatches[i].caught /\ InSeq(PO2.uri, LikesBatches[i].uris)
    /\ \E i \in 1..Len(RepostsBatches) :
           ~RepostsBatches[i].caught /\ InSeq(PO1.uri, RepostsBatches[i].uris)
    /\ \E i \in 1..Len(fetches) : ~fetches[i].caught /\ fetches[i].cursor = "c1"
    /\ to_unlike = <<>> /\ to_delete = <<>>

RECURSIVE Uris(_)
\* the uris of the calls of a log, in call order
Uris(calls) == IF calls = <<>> THEN <<>> ELSE Head(calls).uris \o Uris(Tail(calls))

\* C9: the records passed to detail resolution are split into consecutive
\* groups of at most 25: ceil(N/25) get_posts calls for N records (2 for 30,
\* none for 0), no call with more than 25 URIs, and the groups in call order
\* are the record sequence.
C9_ChunksOfAtMost25 ==
    pc = "gather_posts" =>
        /\ Len(LikesBatches) = (Len(other_likes) + 24) \div 25
        /\ Len(RepostsBatches) = (Len(reposts) + 24) \div 25
        /\ (Len(other_likes) = 30 => Len(LikesBatches) = 2)
        /\ (Len(reposts) = 30 => Len(RepostsBatches) = 2)
        /\ (Len(reposts) = 0 => RepostsBatches = <<>>)
        /\ \A i \in 1..Len(batches) : Len(batches[i].uris) <= 25
        /\ Uris(LikesBatches) = [i \in 1..Len(other_likes) |-> other_likes[i].subject.uri]
        /\ Uris(RepostsBatches) = [i \in 1..Len(reposts) |-> reposts[i].subject.uri]

\* 30 likes and 30 reposts, resolved in two calls each
C9_Witness ==
    /\ pc = "gather_posts"
    /\ Len(other_likes) = 30 /\ Len(reposts) = 30
    /\ Len(LikesBatches) = 2 /\ Len(RepostsBatches) = 2
    /\ Len(batches[1].uris) = 25 /\ Len(batches[2].uris) = 5

\* the cursor the server returned to the i-th fetch
Returned(i) == env.feed[fetches[i].cursor].cursor

RECURSIVE Qualifying(_)
\* the items of the pages fetched that to_delete answers true for, in order
Qualifying(log) ==
    IF log = <<>> THEN <<>>
    ELSE LET page == env.feed[Head(log).cursor].feed
         IN  SelectSeq(page, LAMBDA p :
                           ToDelete(cfg.viral_threshold, cfg.stale_threshold,
                                    cfg.domains_to_protect, cfg.now, self_likes, p))
                 \o Qualifying(Tail(log))

\* C10: when no fetch fails and the server returns an empty cursor (null or
\* the empty string) with the K-th page, the loop makes exactly K fetches and
\* stops, each fetch after the first using the cursor the previous page
\* returned, and the result is the qualifying items of those K pages in
\* page order, each once.
C10_StopsAtEmptyCursor ==
    (\A i \in 1..Len(fetches) : ~fetches[i].caught) =>
        /\ \A i \in 1..Len(fetches) :
               Returned(i) \in {None, ""} => i = Len(fetches) /\ pc # "gather_posts"
        /\ \A i \in 2..Len(fetches) : fetches[i].cursor = Returned(i - 1)
        /\ pc # "gather_posts" => to_delete = Qualifying(fetches)


(***************************************************************************)
(* The own-posts loop for as long as it runs, against a server whose       *)
(* cursors lead from the first page to the last.  fetches holds the last   *)
(* MaxFetches turns.                                                       *)
(***************************************************************************)
\* gather_posts_to_delete, lines 299-326: a turn of the while loop after the
\* first MaxFetches
PostsFetchOn ==
    /\ pc = "gather_posts"
    /\ Len(fetches) >= MaxFetches
    /\ \E outcome \in Outcomes :
         LET posts == env.feed[cursor]
             caught == outcome # "ok" \/ DeleteFilterRaises(posts.feed, self_likes)
             next == IF caught THEN cursor ELSE posts.cursor
         IN  /\ fetches' = Append(Tail(fetches), [cursor |-> cursor, outcome |-> outcome,
                                                  caught |-> caught])
             /\ to_delete' = IF caught THEN to_delete
                             ELSE to_delete \o DeleteFilter(posts.feed, self_likes)
             /\ cursor' = next
             /\ pc' = IF next = None THEN "init_tail" ELSE pc
    /\ UNCHANGED <<qvars, cfg, env, raised, disk, blob_cids, self_likes,
                   other_likes, to_unlike, reposts, to_unrepost, pos,
                   batches, prompts, mutations>>

\* feeds of one page, or of two with the cursor "c1" between them
ChainFeeds ==
    {[c \in Cursors |->
         IF c = None THEN Page(first, after)
         ELSE IF c = "c1" THEN Page(second, None)
         ELSE Page(<<>>, None)] :
     first \in PageFeeds, second \in PageFeeds, after \in {None, "c1"}}

InitPostsLive ==
    /\ QIdle
    /\ cfg \in {Params(max_reposts, stale_limit, <<"a", "b">>, FALSE) :
                  max_reposts \in {0, 1}, stale_limit \in {0, 1}}
    /\ env \in [repo : {<<>>}, posts : {ServerPosts}, feed : ChainFeeds,
                blobs : {NoBlobs}]
    /\ pc = "gather_posts"
    /\ Archived(<<>>)

NextPostsLive ==
    \/ PostsFetch
    \/ PostsFetchOn
    \/ InitTail

\* the loop has no wait in it: a turn that can be taken is taken
SpecPostsLive == InitPostsLive /\ [][NextPostsLive]_vars /\ WF_vars(NextPostsLive)

\* every attempt at cursor c on record has raised
FailsAt(c) == \A i \in 1..Len(fetches) : fetches[i].cursor = c => fetches[i].caught

\* C11: the own-posts loop ends even when a page fails every time it is
\* tried: if every attempt at a non-empty cursor raises (in the fetch or in
\* the evaluation of an item of the page), the loop still ends.
C11_EndsDespiteFailingPage == ([]FailsAt("c1")) => <>(pc # "gather_posts")

\* the flow was let through: by autodelete or by the answer "Y"
Confirmed(flow) == cfg.autodelete \/ Answered(flow, "Y")

\* a call of op on target is in the log
Called(op, target) ==
    \E i \in 1..Len(mutations) : mutations[i].op = op /\ mutations[i].target = target

\* C12: a mutation is attempted for every item of a decision set whatever
\* happened to the items before it: no error of the client leaves
\* batch_unlike_posts or batch_delete_posts, and each batch reaches its last
\* item.
C12_BatchesReachLastItem ==
    /\ raised # "delete_like"
    /\ (pc \in {"delete", "batch_delete", "done"} /\ Confirmed("unlike")) =>
           \A i \in 1..Len(to_unlike) : Called("delete_like", to_unlike[i].viewer.like)
    /\ (pc = "done" /\ Confirmed("delete")) =>
           \A i \in 1..Len(to_delete) :
               \/ Called("unrepost", to_delete[i].viewer.repost)
               \/ Called("delete_post", to_delete[i].uri)

\* a tree node whose first entry links to a cid the archive has no block for
DereferenceMiss(archive, b) ==
    HasE(b) /\ Len(b.e) > 0 /\ BlocksGet(archive, b.e[1].v) = NoneBlock

\* the archive without those nodes
WithoutMisses(archive) ==
    SelectSeq(archive, LAMBDA x : ~DereferenceMiss(archive, x.block))

\* C13: in the scan for likes a node whose first entry points to a content
\* identifier absent from the block index only has that record skipped:
\* gather_likes returns, and the self-like set and the likes to resolve are
\* those of the remaining like records.
C13_DereferenceMissSkipped ==
    (/\ \E i \in 1..Len(env.repo) :
            /\ MentionsLike(env.repo[i].block)
            /\ DereferenceMiss(env.repo, env.repo[i].block)
     /\ ~LikesScanRaises(WithoutMisses(env.repo))
     /\ pc # "gather_likes") =>
        /\ raised # "gather_likes"
        /\ self_likes = SelfLikes(WithoutMisses(env.repo), MeDid)
        /\ other_likes = OtherLikes(WithoutMisses(env.repo), MeDid)

\* C14: the likes flow stops scanning as soon as a floor cursor is set and a
\* newly returned cursor compares less than it; with a floor that every
\* cursor compares less than, the check trips on the first page and the flow
\* makes exactly one iteration, however many likes there are.
C14_FloorStopsLikesFlow ==
    (pc = "gather_posts" /\ cfg.fixed_likes_cursor = TopCursor /\ other_likes # <<>>) =>
        Len(LikesBatches) = 1

\* C15: in the own-posts loop a successful page that returns the same
\* non-empty cursor as the page before it, with no new items, ends the loop:
\* that cursor is not requested again.
C15_RepeatedCursorStops ==
    \A i \in 2..Len(fetches) :
        (/\ ~fetches[i - 1].caught /\ ~fetches[i].caught
         /\ Returned(i) = Returned(i - 1)
         /\ Returned(i) \notin {None, ""}
         /\ env.feed[fetches[i].cursor].feed = <<>>) =>
            i = Len(fetches) /\ pc # "gather_posts"

RECURSIVE KeptLikes(_)
\* what the likes batches of a log that did not fail give, in call order
KeptLikes(log) ==
    IF log = <<>> THEN <<>>
    ELSE (IF Head(log).caught THEN <<>>
          ELSE UnlikeFilter(GetPosts(env.posts, Head(log).uris)))
             \o KeptLikes(Tail(log))

RECURSIVE KeptReposts(_)
\* what the reposts batches of a log that did not fail give, in call order
KeptReposts(log) ==
    IF log = <<>> THEN <<>>
    ELSE (IF Head(log).caught THEN <<>>
          ELSE DeleteFilter(GetPosts(env.posts, Head(log).uris), self_likes))
             \o KeptReposts(Tail(log))

\* the results are those of the batches that succeeded, and when a flow has
\* ended every batch of it was requested
PartialResults ==
    /\ to_unlike = KeptLikes(LikesBatches)
    /\ to_unrepost = KeptReposts(RepostsBatches)
    /\ pc \in {"gather_reposts", "gather_posts"} =>
           Uris(LikesBatches) = SubjectUris(other_likes)
    /\ pc = "gather_posts" => Uris(RepostsBatches) = SubjectUris(reposts)

\* each turn of a for loop takes the next 25 records, and the loop is left
\* with the last of them: no flow makes more than ceil(N/25) turns
BoundedTurns ==
    /\ Len(LikesBatches) <= (Len(other_likes) + 24) \div 25
    /\ Len(RepostsBatches) <= (Len(reposts) + 24) \div 25
    /\ pc = "likes_batch" =>
           pos = LikesChunk * Len(LikesBatches) /\ pos < Len(other_likes)
    /\ pc = "gather_reposts" =>
           pos = RepostsChunk * Len(RepostsBatches) /\ pos < Len(reposts)

\* C16: in the likes and the reposts flow a batch that fails, in the call or
\* in the evaluation of one of its items, contributes nothing, every later
\* batch is still requested, the result is what the batches that succeeded
\* give, in batch order, and both flows end: each within ceil(N/25) turns.
C16_FailedBatchSkipped == PartialResults /\ BoundedTurns

\* 51 likes and 51 reposts in three batches each: the second fails on the
\* created_at of record 29, the first reposts batch on its call, and the
\* results are those of the others
C16_Witness ==
    /\ pc = "gather_posts"
    /\ cfg.stale_threshold = 1
    /\ Len(other_likes) = 51 /\ Len(reposts) = 51
    /\ [i \in 1..Len(batches) |-> batches[i].caught]
           = <<FALSE, TRUE, FALSE, TRUE, TRUE, FALSE>>
    /\ Len(to_unlike) = 14
    /\ to_unrepost = <<NthPost(51)>>

\* the calls of the delete flow, in call order
DeleteCalls == SelectSeq(mutations, LAMBDA m : m.op # "delete_like")

\* C17: for each item of to_delete remove() issues exactly one call: unrepost
\* on the item's viewer repost reference when its author is not the actor,
\* delete_post on its URI when the author is the actor; never both, and
\* never delete_post on another author's post.
C17_OneCallByAuthor ==
    /\ pc = "batch_delete" => Len(DeleteCalls) = pos
    /\ pc = "done" =>
           Len(DeleteCalls) = IF Confirmed("delete") THEN Len(to_delete) ELSE 0
    /\ Len(DeleteCalls) <= Len(to_delete)
    /\ \A i \in 1..Len(DeleteCalls) :
           IF to_delete[i].author.did # MeDid
           THEN /\ DeleteCalls[i].op = "unrepost"
                /\ DeleteCalls[i].target = to_delete[i].viewer.repost
           ELSE /\ DeleteCalls[i].op = "delete_post"
                /\ DeleteCalls[i].target = to_delete[i].uri

\* an own post was deleted and another author's post unreposted, each by one
\* call, one of which failed
C17_Witness ==
    /\ pc = "done"
    /\ to_delete = <<PM1, PO2>>
    /\ Len(DeleteCalls) = 2
    /\ DeleteCalls[1].op = "delete_post" /\ DeleteCalls[1].target = PM1.uri
    /\ DeleteCalls[1].outcome = "HTTPStatusError"
    /\ DeleteCalls[2].op = "unrepost" /\ DeleteCalls[2].target = PO2.viewer.repost

\* the calls of the unlike flow, in call order
UnlikeCalls == SelectSeq(mutations, LAMBDA m : m.op = "delete_like")

\* the calls made for post p
CallsFor(p) ==
    SelectSeq(UnlikeCalls, LAMBDA m : m.target \in {p.viewer.like, p.uri})

\* delete_like has been called on the i-th item of to_unlike
Unliked(i) ==
    \/ pc = "batch_unlike" /\ i <= pos
    \/ pc \in {"delete", "batch_delete", "done"} /\ Confirmed("unlike")
    \/ raised = "delete_like" /\ i <= pos + 1

\* C18 as stated: the viewer like reference is tried first; whenever that
\* attempt fails exactly one further attempt is made, on the item's URI; when
\* it succeeds none is; never more than two calls per item.
C18_FallbackWheneverPrimaryFails ==
    \A i \in 1..Len(to_unlike) :
        Unliked(i) =>
            LET p == to_unlike[i]
                calls == CallsFor(p)
            IN  /\ Len(calls) \in {1, 2}
                /\ calls[1].target = p.viewer.like
                /\ Len(calls) = 2 <=> calls[1].outcome # "ok"
                /\ Len(calls) = 2 => calls[2].target = p.uri

\* C18, amended: the fallback on the item's URI is made exactly when the
\* first attempt fails with an HTTP status error; after any other error of
\* the first attempt, as after its success, no further attempt is made.
C18_FallbackOnHTTPStatusError ==
    \A i \in 1..Len(to_unlike) :
        Unliked(i) =>
            LET p == to_unlike[i]
                calls == CallsFor(p)
            IN  /\ Len(calls) \in {1, 2}
                /\ calls[1].target = p.viewer.like
                /\ Len(calls) = 2 <=> calls[1].outcome = "HTTPStatusError"
                /\ Len(calls) = 2 => calls[2].target = p.uri

\* the first unlike failed on another error and was left at that, the second
\* went through the fallback, which failed too, and the run went on
C18_Witness ==
    /\ pc = "delete"
    /\ to_unlike = <<PO1, PO2>>
    /\ UnlikeCalls = << Call("delete_like", PO1.viewer.like, "Exception"),
                        Call("delete_like", PO2.viewer.like, "HTTPStatusError"),
                        Call("delete_like", PO2.uri, "HTTPStatusError") >>

RECURSIVE UriDid(_)
\* the DID of an at:// URI: what stands between "at://" and the next "/"
UriDid(uri) ==
    IF uri = <<>> THEN <<>>
    ELSE IF Head(uri) = "at://" THEN UriDid(Tail(uri))
    ELSE IF Head(uri) = "/" THEN <<>>
    ELSE <<Head(uri)>> \o UriDid(Tail(uri))

\* the like x is on a record of the actor's
OnActorsContent(x) == UriDid(x.subject.uri) = MeDid

\* C19: the self-like set gather_likes builds is exactly the like records of
\* the archive whose subject URI belongs to the actor and whose subject
\* content identifier resolves in the archive; it is disjoint from the likes
\* sent to the unlike flow; and every like on the actor's own content is kept
\* out of the unlike flow whether or not its subject resolves.
C19_SelfLikesAreOwnResolvedLikes ==
    LikesGathered =>
        /\ self_likes =
               SelectSeq(Likes(env.repo),
                         LAMBDA x : OnActorsContent(x) /\ SubjectResolves(env.repo, x))
        /\ \A i \in 1..Len(self_likes) : ~InSeq(self_likes[i], other_likes)
        /\ \A i \in 1..Len(Likes(env.repo)) :
               OnActorsContent(Likes(env.repo)[i]) =>
                   /\ ~InSeq(Likes(env.repo)[i], other_likes)
                   /\ \A j \in 1..Len(LikesBatches) :
                          ~InSeq(Likes(env.repo)[i].subject.uri, LikesBatches[j].uris)

\* C20: no content URI appears more than once in the final to_delete (the
\* own posts, then the reposts), so that a run issues at most one delete or
\* unrepost per URI, also when the actor reposted their own post.
C20_NoUriTwiceInToDelete ==
    pc = "unlike" =>
        \A i \in 1..Len(to_delete), j \in 1..Len(to_delete) :
            i # j => to_delete[i].uri # to_delete[j].uri

=============================================================================
